---- MODULE Spec2Model ----
(***************************************************************************)
(* Model of PDFContentExtractor (src/pdf_content_extractor.py):            *)
(* process_pdf, the two extraction variants extract_with_pymupdf and       *)
(* extract_with_pdfplumber, the segmenter parse_math_questions and the     *)
(* calls of save_json_output.                                              *)
(*                                                                         *)
(* Python strings are sequences of one-character strings, so that strip,   *)
(* split, lower and the substring test are computed, not assumed.          *)
(***************************************************************************)
EXTENDS Integers, Sequences, FiniteSets, TLC

\* ------------------------------------------------------------------ bounds
MaxPages == 2
MaxImgs == 2
MaxSegPages == 2

\* ------------------------------------------------------- string primitives
Whitespace == {" ", "\t", "\n", "\r"}

UpperChars == <<"A","B","C","D","E","F","G","H","I","J","K","L","M",
                "N","O","P","Q","R","S","T","U","V","W","X","Y","Z">>

LowerChars == <<"a","b","c","d","e","f","g","h","i","j","k","l","m",
                "n","o","p","q","r","s","t","u","v","w","x","y","z">>

\* a comparison that forgets the case folding
LowerChar_caseSensitive(c) == c

\* str.lower() on one character
LowerChar(c) ==
    IF \E i \in 1..Len(UpperChars) : UpperChars[i] = c
    THEN LowerChars[CHOOSE i \in 1..Len(UpperChars) : UpperChars[i] = c]
    ELSE c

\* str.lower()
Lower(s) == [i \in 1..Len(s) |-> LowerChar(s[i])]

RECURSIVE LStrip(_)
LStrip(s) ==
    IF s # <<>> /\ Head(s) \in Whitespace THEN LStrip(Tail(s)) ELSE s

RECURSIVE RStrip(_)
RStrip(s) ==
    IF s # <<>> /\ s[Len(s)] \in Whitespace
    THEN RStrip(SubSeq(s, 1, Len(s) - 1)) ELSE s

\* str.strip()
Strip(s) == RStrip(LStrip(s))

\* str.split(sep) for a one-character separator: always at least one piece
RECURSIVE Split(_, _)
Split(s, sep) ==
    IF \E i \in 1..Len(s) : s[i] = sep
    THEN LET i == CHOOSE j \in 1..Len(s) :
                     s[j] = sep /\ \A k \in 1..(j - 1) : s[k] # sep
         IN  <<SubSeq(s, 1, i - 1)>> \o Split(SubSeq(s, i + 1, Len(s)), sep)
    ELSE <<s>>

\* the Python test `kw in s`
Contains(s, kw) ==
    \E i \in 0..(Len(s) - Len(kw)) : SubSeq(s, i + 1, i + Len(kw)) = kw

\* str(n) for a natural number
RECURSIVE Dec(_)
Dec(n) ==
    LET Digits == <<"0","1","2","3","4","5","6","7","8","9">>
    IN  IF n < 10 THEN <<Digits[n + 1]>>
        ELSE Dec(n \div 10) \o <<Digits[(n % 10) + 1]>>

\* ---------------------------------------------------------------- segmenter
Keywords ==
    << <<"q","u","e","s","t","i","o","n">>,
       <<"w","h","a","t">>,
       <<"w","h","i","c","h">>,
       <<"f","i","n","d">>,
       <<"s","o","l","v","e">>,
       <<"c","a","l","c","u","l","a","t","e">> >>

\* any(keyword in line.lower() for keyword in [...])
IsTrigger(line) ==
    LET lowered == Lower(line)
    IN  \E k \in 1..Len(Keywords) : Contains(lowered, Keywords[k])

\* a primary slot that takes the last image of the pool
QuestionImagesOf_last(page_images) ==
    IF page_images # <<>>
    THEN SubSeq(page_images, Len(page_images), Len(page_images)) ELSE <<>>

\* question_images = page_images[:1] if page_images else []
QuestionImagesOf(page_images) ==
    IF page_images # <<>> THEN SubSeq(page_images, 1, 1) ELSE <<>>

\* an option slice that starts at the first element
OptionImagesOf_all(page_images) ==
    IF Len(page_images) > 1 THEN page_images ELSE <<>>

\* option_images = page_images[1:] if len(page_images) > 1 else []
OptionImagesOf(page_images) ==
    IF Len(page_images) > 1
    THEN SubSeq(page_images, 2, Len(page_images)) ELSE <<>>

\* The locals of parse_math_questions: current_question, question_images,
\* option_images, questions.  src is a history field: the index of the page
\* being iterated when each question was appended; page is that index.
EmptyAcc ==
    [current_question |-> <<>>, question_images |-> <<>>,
     option_images |-> <<>>, questions |-> <<>>, src |-> <<>>, page |-> 0]

\* questions.append({...})
Flush(acc) ==
    [acc EXCEPT
       !.questions = Append(@,
           [question |-> Strip(acc.current_question),
            images |-> IF acc.question_images # <<>>
                       THEN acc.question_images[1] ELSE <<>>,
            option_images |-> acc.option_images]),
       !.src = Append(@, acc.page)]

\* a page iteration that keeps the accumulator of the previous page
PageStart_carry(acc, pidx) == [acc EXCEPT !.page = pidx]

\* the three resets at the head of the page loop
PageStart(acc, pidx) ==
    [acc EXCEPT !.current_question = <<>>, !.question_images = <<>>,
                !.option_images = <<>>, !.page = pidx]

\* a line loop whose trigger branch overwrites the open question unflushed
SegLine_noFlush(acc, rawline, page_images) ==
    LET line == Strip(rawline)
    IN  IF line = <<>> THEN acc
        ELSE IF IsTrigger(line)
        THEN [acc EXCEPT !.current_question = line,
                         !.question_images = QuestionImagesOf(page_images),
                         !.option_images = OptionImagesOf(page_images)]
        ELSE IF acc.current_question # <<>>
        THEN [acc EXCEPT !.current_question = @ \o <<" ">> \o line]
        ELSE acc

\* the body of `for line in lines`
SegLine(acc, rawline, page_images) ==
    LET line == Strip(rawline)
    IN  IF line = <<>> THEN acc
        ELSE IF IsTrigger(line)
        THEN LET a1 == IF acc.current_question # <<>> THEN Flush(acc) ELSE acc
             IN  [a1 EXCEPT !.current_question = line,
                            !.question_images = QuestionImagesOf(page_images),
                            !.option_images = OptionImagesOf(page_images)]
        ELSE IF acc.current_question # <<>>
        THEN [acc EXCEPT !.current_question = @ \o <<" ">> \o line]
        ELSE acc

RECURSIVE SegLines(_, _, _)
SegLines(acc, lines, page_images) ==
    IF lines = <<>> THEN acc
    ELSE SegLines(SegLine(acc, Head(lines), page_images), Tail(lines),
                  page_images)

\* the body of `for page in page_data`, with the flush at the end of the page
SegPage(acc, page, pidx) ==
    LET a0 == PageStart(acc, pidx)
        a1 == SegLines(a0, Split(page.text, "\n"), page.images)
    IN  IF a1.current_question # <<>> THEN Flush(a1) ELSE a1

RECURSIVE SegPages(_, _, _)
SegPages(acc, pages, pidx) ==
    IF pidx > Len(pages) THEN acc
    ELSE SegPages(SegPage(acc, pages[pidx], pidx), pages, pidx + 1)

\* parse_math_questions(page_data): the questions and, as history, the
\* page each one was appended on
parse_math_questions(pages) == SegPages(EmptyAcc, pages, 1)

\* ----------------------------------------------------------------- documents
\* An embedded image: pix.n and pix.alpha of its pixmap, the step of the
\* materialization that raises for it (if any), and the layout dictionary
\* pdfplumber reports for it.
ImgRGB ==
    [n |-> 3, alpha |-> 0, bad |-> "none",
     geo |-> [x0 |-> 1, y0 |-> 2, x1 |-> 3, y1 |-> 4, width |-> 2, height |-> 2]]

ImgCMYK ==
    [n |-> 4, alpha |-> 0, bad |-> "none",
     geo |-> [x0 |-> 0, y0 |-> 0, x1 |-> 5, y1 |-> 5, width |-> 5, height |-> 5]]

ImgCorrupt ==
    [n |-> 1, alpha |-> 0, bad |-> "decode", geo |-> [x0 |-> 1, y0 |-> 1]]

ImgCMYKBad ==
    [n |-> 5, alpha |-> 1, bad |-> "convert",
     geo |-> [x1 |-> 2, y1 |-> 2, width |-> 2]]

ImgSaveBad ==
    [n |-> 4, alpha |-> 1, bad |-> "save",
     geo |-> [x0 |-> 2, y0 |-> 2, x1 |-> 3, y1 |-> 3, width |-> 1, height |-> 1]]

ImgKinds == {ImgRGB, ImgCMYK, ImgCorrupt, ImgCMYKBad, ImgSaveBad}

\* "  What is x?\nabc \n"
DocTextA ==
    <<" "," ","W","h","a","t"," ","i","s"," ","x","?","\n","a","b","c"," ","\n">>

\* "abc\n\nSolve it"
DocTextB == <<"a","b","c","\n","\n","S","o","l","v","e"," ","i","t">>

DocTexts == {DocTextA, DocTextB}

\* pools of at most k embedded images
DocPools(k) == UNION {[1..j -> ImgKinds] : j \in 0..k}

\* the documents of exactly n pages that hold at most k images in all
RECURSIVE DocsOf(_, _)
DocsOf(n, k) ==
    IF n = 0 THEN {<<>>}
    ELSE UNION { { <<[text |-> t, images |-> im]>> \o d :
                       d \in DocsOf(n - 1, k - Len(im)) } :
                 t \in DocTexts, im \in DocPools(k) }

Docs == UNION {DocsOf(n, MaxImgs) : n \in 0..MaxPages}

\* "pymupdf"
M_pymupdf == <<"p","y","m","u","p","d","f">>

\* "pdfplumber"
M_pdfplumber == <<"p","d","f","p","l","u","m","b","e","r">>

\* "xml"
M_xml == <<"x","m","l">>

\* "PDFPlumber"
M_PDFPlumber == <<"P","D","F","P","l","u","m","b","e","r">>

Methods == {M_pymupdf, M_PDFPlumber, M_xml}

\* a dispatch whose last branch falls back to the default variant
MethodBranch_fallback(m) ==
    IF Lower(m) = M_pymupdf THEN "pymupdf"
    ELSE IF Lower(m) = M_pdfplumber THEN "pdfplumber"
    ELSE "pymupdf"

\* the if / elif / else of process_pdf on method.lower()
MethodBranch(m) ==
    IF Lower(m) = M_pymupdf THEN "pymupdf"
    ELSE IF Lower(m) = M_pdfplumber THEN "pdfplumber"
    ELSE "unknown"

\* ---------------------------------------------------------------- extraction
\* str(self.images_dir), for output_dir "o"
images_dir == <<"o","/","i","m","a","g","e","s">>

\* str(self.images_dir / f"page_{page_num + 1}_image_{img_index + 1}.png")
ImagePath(page_num, img_index) ==
    images_dir \o <<"/">> \o <<"p","a","g","e","_">> \o Dec(page_num + 1)
      \o <<"_","i","m","a","g","e","_">> \o Dec(img_index + 1)
      \o <<".","p","n","g">>

\* the statements of the try block that raise for this image
Raises(img) ==
    \/ img.bad = "decode"
    \/ img.bad = "convert" /\ img.n - img.alpha > 3
    \/ img.bad = "save"

\* a loop body that appends the path before the pixmap is saved
MuImageStep_appendFirst(page_images, img, page_num, img_index) ==
    IF img.bad = "decode" \/ (img.bad = "convert" /\ img.n - img.alpha > 3)
    THEN page_images
    ELSE Append(page_images, ImagePath(page_num, img_index))

\* the body of `for img_index, img in enumerate(image_list)`: try / except
MuImageStep(page_images, img, page_num, img_index) ==
    IF Raises(img) THEN page_images
    ELSE Append(page_images, ImagePath(page_num, img_index))

RECURSIVE MuImageLoop(_, _, _, _)
MuImageLoop(page_images, image_list, page_num, img_index) ==
    IF img_index >= Len(image_list) THEN page_images
    ELSE MuImageLoop(
             MuImageStep(page_images, image_list[img_index + 1],
                         page_num, img_index),
             image_list, page_num, img_index + 1)

\* a page number that keeps the 0-based loop index
PageNumber_zeroBased(page_num) == page_num

\* "page_number": page_num + 1
PageNumber(page_num) == page_num + 1

\* page_info of extract_with_pymupdf
MuPageInfo(page, page_num) ==
    LET page_images == MuImageLoop(<<>>, page.images, page_num, 0)
    IN  [page_number |-> PageNumber(page_num),
         text |-> Strip(page.text),
         images |-> page_images,
         image_count |-> Len(page_images)]

\* dict.get(key, default)
Get(d, key, default) == IF key \in DOMAIN d THEN d[key] ELSE default

\* image_info of extract_with_pdfplumber
PlImageInfo(img) ==
    [x0 |-> Get(img.geo, "x0", 0), y0 |-> Get(img.geo, "y0", 0),
     x1 |-> Get(img.geo, "x1", 0), y1 |-> Get(img.geo, "y1", 0),
     width |-> Get(img.geo, "width", 0), height |-> Get(img.geo, "height", 0)]

\* page_info of extract_with_pdfplumber
PlPageInfo(page, page_num) ==
    LET page_images == [i \in 1..Len(page.images) |-> PlImageInfo(page.images[i])]
    IN  [page_number |-> PageNumber(page_num),
         text |-> Strip(page.text),
         images |-> <<>>,
         image_metadata |-> page_images,
         image_count |-> Len(page_images)]

\* an except clause that swallows the error and returns what it has
AfterExtractError_swallow == "parse"

\* `except Exception as e: ...; raise` of both extraction variants
AfterExtractError == "raised"

\* -------------------------------------------------------------------- state
VARIABLES
    pdf_exists,  \* os.path.exists(pdf_path)
    method,      \* the method argument of process_pdf
    doc,         \* the pages of the file at pdf_path
    pc,          \* position in process_pdf / parse_math_questions
    handle,      \* the document handle: "none", "open" or "closed"
    opens,       \* number of times a handle was acquired
    page_num,    \* 0-based loop index of the extraction loop
    page_data,   \* the list built by the extraction, later the segmenter's input
    questions,   \* the list returned by parse_math_questions
    qsrc,        \* history: for each question, the page it was appended on
    sink,        \* the calls of save_json_output, in order
    error,       \* the exception that left process_pdf, or "none"
    result       \* <<value>> once process_pdf has returned, else <<>>

vars == <<pdf_exists, method, doc, pc, handle, opens, page_num, page_data,
          questions, qsrc, sink, error, result>>

\* a call of process_pdf(pdf_path, method) on a fresh extractor
Init ==
    /\ pdf_exists \in BOOLEAN
    /\ method \in Methods
    /\ doc \in Docs
    /\ (~pdf_exists => doc = <<>>)
    /\ pc = "start"
    /\ handle = "none"
    /\ opens = 0
    /\ page_num = 0
    /\ page_data = <<>>
    /\ questions = <<>>
    /\ qsrc = <<>>
    /\ sink = <<>>
    /\ error = "none"
    /\ result = <<>>

\* an exception leaves process_pdf
Raise(e) == pc' = "raised" /\ error' = e

\* if not os.path.exists(pdf_path): raise FileNotFoundError
CheckPath ==
    /\ pc = "start"
    /\ IF pdf_exists THEN pc' = "dispatch" /\ error' = error
       ELSE Raise("FileNotFoundError")
    /\ UNCHANGED <<pdf_exists, method, doc, handle, opens, page_num,
                   page_data, questions, qsrc, sink, result>>

\* the choice of the extraction variant
Dispatch ==
    /\ pc = "dispatch"
    /\ LET b == MethodBranch(method)
       IN  IF b = "pymupdf" THEN pc' = "mu_open" /\ error' = error
           ELSE IF b = "pdfplumber" THEN pc' = "pl_open" /\ error' = error
           ELSE Raise("ValueError")
    /\ UNCHANGED <<pdf_exists, method, doc, handle, opens, page_num,
                   page_data, questions, qsrc, sink, result>>

\* extract_with_pymupdf up to `page_data = []`: the availability check
\* and fitz.open
MuOpen ==
    /\ pc = "mu_open"
    /\ \E outcome \in {"ok", "ImportError", "open"} :
         IF outcome = "ok"
         THEN /\ handle' = "open" /\ opens' = opens + 1
              /\ pc' = "mu_loop" /\ error' = error
         ELSE /\ pc' = (IF outcome = "ImportError" THEN "raised"
                        ELSE AfterExtractError)
              /\ error' = outcome
              /\ UNCHANGED <<handle, opens>>
    /\ page_num' = 0 /\ page_data' = <<>>
    /\ UNCHANGED <<pdf_exists, method, doc, questions, qsrc, sink, result>>

\* one iteration of `for page_num in range(len(doc))`; load_page, get_text
\* or get_images may raise, and the except clause re-raises without closing
MuPage ==
    /\ pc = "mu_loop" /\ page_num < Len(doc)
    /\ \E outcome \in {"ok", "load_page", "get_text", "get_images"} :
         IF outcome = "ok"
         THEN /\ page_data' = Append(page_data,
                                     MuPageInfo(doc[page_num + 1], page_num))
              /\ page_num' = page_num + 1
              /\ UNCHANGED <<pc, error>>
         ELSE /\ pc' = AfterExtractError /\ error' = outcome
              /\ UNCHANGED <<page_data, page_num>>
    /\ UNCHANGED <<pdf_exists, method, doc, handle, opens, questions, qsrc,
                   sink, result>>

\* doc.close(); return page_data
MuClose ==
    /\ pc = "mu_loop" /\ page_num = Len(doc)
    /\ handle' = "closed"
    /\ pc' = "parse"
    /\ UNCHANGED <<pdf_exists, method, doc, opens, page_num, page_data,
                   questions, qsrc, sink, error, result>>

\* extract_with_pdfplumber up to `page_data = []`: the availability check
\* and entering `with pdfplumber.open(pdf_path) as pdf`
PlOpen ==
    /\ pc = "pl_open"
    /\ \E outcome \in {"ok", "ImportError", "open"} :
         IF outcome = "ok"
         THEN /\ handle' = "open" /\ opens' = opens + 1
              /\ pc' = "pl_loop" /\ error' = error
         ELSE /\ pc' = (IF outcome = "ImportError" THEN "raised"
                        ELSE AfterExtractError)
              /\ error' = outcome
              /\ UNCHANGED <<handle, opens>>
    /\ page_num' = 0 /\ page_data' = <<>>
    /\ UNCHANGED <<pdf_exists, method, doc, questions, qsrc, sink, result>>

\* one iteration of `for page_num, page in enumerate(pdf.pages)`; an
\* exception leaves the with block, which closes the handle
PlPage ==
    /\ pc = "pl_loop" /\ page_num < Len(doc)
    /\ \E outcome \in {"ok", "extract_text", "images"} :
         IF outcome = "ok"
         THEN /\ page_data' = Append(page_data,
                                     PlPageInfo(doc[page_num + 1], page_num))
              /\ page_num' = page_num + 1
              /\ UNCHANGED <<pc, error, handle>>
         ELSE /\ pc' = AfterExtractError /\ error' = outcome
              /\ handle' = "closed"
              /\ UNCHANGED <<page_data, page_num>>
    /\ UNCHANGED <<pdf_exists, method, doc, opens, questions, qsrc, sink,
                   result>>

\* return page_data from inside the with block
PlReturn ==
    /\ pc = "pl_loop" /\ page_num = Len(doc)
    /\ handle' = "closed"
    /\ pc' = "parse"
    /\ UNCHANGED <<pdf_exists, method, doc, opens, page_num, page_data,
                   questions, qsrc, sink, error, result>>

\* questions = self.parse_math_questions(page_data)
Parse ==
    /\ pc = "parse"
    /\ LET r == parse_math_questions(page_data)
       IN  questions' = r.questions /\ qsrc' = r.src
    /\ pc' = "save_questions"
    /\ UNCHANGED <<pdf_exists, method, doc, handle, opens, page_num,
                   page_data, sink, error, result>>

\* self.save_json_output(questions, "questions.json")
SaveQuestions ==
    /\ pc = "save_questions"
    /\ \E ok \in BOOLEAN :
         /\ sink' = Append(sink, [filename |-> "questions.json",
                                  data |-> questions, ok |-> ok])
         /\ IF ok THEN pc' = "save_raw" /\ error' = error
            ELSE Raise("save_json_output")
    /\ UNCHANGED <<pdf_exists, method, doc, handle, opens, page_num,
                   page_data, questions, qsrc, result>>

\* self.save_json_output(page_data, "raw_pages.json"); return questions
SaveRawPages ==
    /\ pc = "save_raw"
    /\ \E ok \in BOOLEAN :
         /\ sink' = Append(sink, [filename |-> "raw_pages.json",
                                  data |-> page_data, ok |-> ok])
         /\ IF ok THEN pc' = "done" /\ error' = error /\ result' = <<questions>>
            ELSE Raise("save_json_output") /\ result' = result
    /\ UNCHANGED <<pdf_exists, method, doc, handle, opens, page_num,
                   page_data, questions, qsrc>>

Next ==
    \/ CheckPath
    \/ Dispatch
    \/ MuOpen
    \/ MuPage
    \/ MuClose
    \/ PlOpen
    \/ PlPage
    \/ PlReturn
    \/ Parse
    \/ SaveQuestions
    \/ SaveRawPages

Spec == Init /\ [][Next]_vars

\* ------------------------------------------- the segmenter called directly
\* "Find the pattern.\nContinue: A B C ?"
ScenarioBText ==
    <<"F","i","n","d"," ","t","h","e"," ","p","a","t","t","e","r","n",".","\n",
      "C","o","n","t","i","n","u","e",":"," ","A"," ","B"," ","C"," ","?">>

\* "in\n WHICH? \n\nmo\tre\nsolve"
SegTextLead ==
    <<"i","n","\n"," ","W","H","I","C","H","?"," ","\n","\n","m","o","\t","r","e",
      "\n","s","o","l","v","e">>

\* "abc\ndef"
SegTextPlain == <<"a","b","c","\n","d","e","f">>

\* "Question 1"
SegTextOne == <<"Q","u","e","s","t","i","o","n"," ","1">>

\* "tail b\nfind z"
SegTextTail == <<"t","a","i","l"," ","b","\n","f","i","n","d"," ","z">>

SegTexts ==
    {<<>>, ScenarioBText, SegTextLead, SegTextPlain, SegTextOne, SegTextTail}

\* image pools: empty, one path, two paths, the same path twice, three paths
SegPools ==
    { <<>>,
      <<ImagePath(0, 0)>>,
      <<ImagePath(0, 0), ImagePath(0, 1)>>,
      <<ImagePath(0, 0), ImagePath(0, 0)>>,
      <<ImagePath(1, 0), ImagePath(1, 1), ImagePath(1, 2)>> }

\* page records of the shape parse_math_questions reads
MkPages(f) ==
    [i \in 1..Len(f) |->
        [page_number |-> i, text |-> f[i].text, images |-> f[i].images,
         image_count |-> Len(f[i].images)]]

SegInputs ==
    { MkPages(f) : f \in UNION {[1..n -> [text : SegTexts, images : SegPools]] :
                                n \in 0..MaxSegPages} }

\* a call of parse_math_questions(page_data) on its own
SegInit ==
    /\ pdf_exists = TRUE
    /\ method = M_pymupdf
    /\ doc = <<>>
    /\ pc = "seg_call"
    /\ handle = "none"
    /\ opens = 0
    /\ page_num = 0
    /\ page_data \in SegInputs
    /\ questions = <<>>
    /\ qsrc = <<>>
    /\ sink = <<>>
    /\ error = "none"
    /\ result = <<>>

\* parse_math_questions runs and returns
SegCall ==
    /\ pc = "seg_call"
    /\ LET r == parse_math_questions(page_data)
       IN  questions' = r.questions /\ qsrc' = r.src
    /\ pc' = "seg_returned"
    /\ UNCHANGED <<pdf_exists, method, doc, handle, opens, page_num,
                   page_data, sink, error, result>>

SegNext == SegCall

SegSpec == SegInit /\ [][SegNext]_vars

\* =================================================================== claims
\* process_pdf has left the extraction call by a return
ExtractReturned ==
    \/ pc \in {"parse", "save_questions", "save_raw", "done"}
    \/ error = "save_json_output"

\* the run is outside the extraction call
OutsideExtract == pc \notin {"mu_open", "pl_open", "mu_loop", "pl_loop"}

Rasterizing == method = M_pymupdf

GeometryOnly == method = M_PDFPlumber

\* the image goes through decode, conversion if needed, and save
Materializes(img) ==
    \/ img.bad = "none"
    \/ img.bad = "convert" /\ img.n - img.alpha <= 3

\* C1: in both extraction variants the document handle is acquired at most
\* once per call and, once acquired, is released on every exit path: whenever
\* the run is outside the extraction call, no handle is open.
C1_HandleReleased ==
    /\ opens <= 1
    /\ (handle # "none" => opens = 1)
    /\ (OutsideExtract => handle # "open")

\* C2: every PageRecord built by either variant has
\* image_count = length(images).
C2_ImageCount ==
    \A i \in 1..Len(page_data) :
        page_data[i].image_count = Len(page_data[i].images)

\* C3 as stated: with an unsupported variant string process_pdf fails with
\* the unsupported-variant error whatever the path.
C3_Original ==
    (method = M_xml /\ pc = "raised") => error = "ValueError"

\* C3 amended: with an unsupported variant string process_pdf never opens a
\* document handle, never reaches the sink and never returns; it fails with
\* the unsupported-variant error when the path exists and with the
\* not-found error when it does not, the path being checked first.
C3_Theorem ==
    method = M_xml =>
        /\ handle = "none" /\ opens = 0
        /\ sink = <<>> /\ result = <<>> /\ page_data = <<>>
        /\ pc \in {"start", "dispatch", "raised"}
        /\ (pc = "raised" =>
              error = IF pdf_exists THEN "ValueError" ELSE "FileNotFoundError")

C3_Witness ==
    method = M_xml /\ pc = "raised" /\ error = "ValueError" /\ Len(doc) > 0

\* the page of Scenario B: two lines, pool [img1, img2]
ScenarioBPages ==
    MkPages(<< [text |-> ScenarioBText,
                images |-> <<ImagePath(0, 0), ImagePath(0, 1)>>] >>)

\* C4 as stated: Scenario B yields two Questions, one per line, both with
\* images = img1 and option_images = [img2].
C4_Original ==
    (pc = "seg_returned" /\ page_data = ScenarioBPages) =>
        questions =
          << [question |-> <<"F","i","n","d"," ","t","h","e"," ",
                             "p","a","t","t","e","r","n",".">>,
              images |-> ImagePath(0, 0),
              option_images |-> <<ImagePath(0, 1)>>],
             [question |-> <<"C","o","n","t","i","n","u","e",":"," ",
                             "A"," ","B"," ","C"," ","?">>,
              images |-> ImagePath(0, 0),
              option_images |-> <<ImagePath(0, 1)>>] >>

\* C4 amended: Scenario B yields exactly one Question, whose text is
\* "Find the pattern. Continue: A B C ?" (the second line holds no trigger
\* keyword and is appended), with images = img1 and option_images = [img2].
C4_Theorem ==
    (pc = "seg_returned" /\ page_data = ScenarioBPages) =>
        questions =
          << [question |-> <<"F","i","n","d"," ","t","h","e"," ",
                             "p","a","t","t","e","r","n","."," ",
                             "C","o","n","t","i","n","u","e",":"," ",
                             "A"," ","B"," ","C"," ","?">>,
              images |-> ImagePath(0, 0),
              option_images |-> <<ImagePath(0, 1)>>] >>

C4_Witness ==
    pc = "seg_returned" /\ page_data = ScenarioBPages /\ Len(questions) = 1

\* the indices of the images of a page that materialize
GoodIdx(page) ==
    {j \in 1..Len(page.images) : Materializes(page.images[j])}

\* the k-th smallest element of a set of numbers
KthSmallest(S, k) ==
    CHOOSE j \in S : Cardinality({x \in S : x < j}) = k - 1

\* C5: in the rasterizing variant an image whose materialization fails is
\* the only thing lost: each PageRecord holds exactly the paths of the
\* images of its page that materialize, in native order; every page the
\* loop has passed has its record, and a returned extraction has a record
\* for every page of the document.
C5_Theorem ==
    Rasterizing =>
        /\ \A i \in 1..Len(page_data) :
              LET good == GoodIdx(doc[i])
                  imgs == page_data[i].images
              IN  /\ Len(imgs) = Cardinality(good)
                  /\ \A k \in 1..Len(imgs) :
                        imgs[k] = ImagePath(i - 1, KthSmallest(good, k) - 1)
        /\ (pc = "mu_loop" => Len(page_data) = page_num)
        /\ (ExtractReturned => Len(page_data) = Len(doc))

C5_Witness ==
    /\ Rasterizing /\ ExtractReturned /\ Len(doc) >= 2
    /\ Len(doc[1].images) = 2
    /\ ~Materializes(doc[1].images[1]) /\ Materializes(doc[1].images[2])
    /\ Len(page_data[1].images) = 1
    /\ page_data[2].page_number = 2

\* the errors that end a run before the sink is reached
FatalErrors ==
    {"FileNotFoundError", "ValueError", "ImportError", "open", "load_page",
     "get_text", "get_images", "extract_text", "images"}

\* C6: when the path does not exist or the extraction raises (at open time
\* or on any page), the error leaves process_pdf, nothing is returned and
\* save_json_output is never called; save_json_output is called only after
\* the extraction has returned every page and the segmenter has returned.
C6_Theorem ==
    /\ (error \in FatalErrors =>
          pc = "raised" /\ sink = <<>> /\ result = <<>> /\ questions = <<>>)
    /\ (sink # <<>> =>
          /\ pc \in {"save_raw", "done", "raised"}
          /\ error \in {"none", "save_json_output"}
          /\ Len(page_data) = Len(doc))
    /\ (result # <<>> => pc = "done" /\ Len(sink) = 2)

C6_Witness ==
    pc = "raised" /\ error = "get_text" /\ page_data # <<>> /\ sink = <<>>

\* C7: after a successful extraction by either variant there is exactly one
\* PageRecord per page of the document and their page_number values are
\* 1, 2, ..., pageCount in that order, whatever images failed.
C7_Theorem ==
    ExtractReturned =>
        /\ Len(page_data) = Len(doc)
        /\ \A i \in 1..Len(page_data) : page_data[i].page_number = i

C7_Witness ==
    /\ GeometryOnly /\ ExtractReturned /\ Len(doc) >= 2
    /\ \E i \in 1..Len(doc) : \E j \in 1..Len(doc[i].images) :
          ~Materializes(doc[i].images[j])

\* the image pool of the page question k was appended on
PoolOf(k) == page_data[qsrc[k]].images

\* C8: every Question of a page gets the same image assignment, however many
\* questions precede it on that page: images is element 0 of that page's
\* pool and option_images is the pool from index 1 onward; with an empty
\* pool images is the empty string and option_images is empty.  The pool
\* used is always the one of the question's own page.
C8_Theorem ==
    pc = "seg_returned" =>
        /\ Len(qsrc) = Len(questions)
        /\ \A k \in 1..Len(questions) :
              /\ qsrc[k] \in 1..Len(page_data)
              /\ questions[k].images =
                    (IF PoolOf(k) = <<>> THEN <<>> ELSE PoolOf(k)[1])
              /\ questions[k].option_images =
                    (IF PoolOf(k) = <<>> THEN <<>> ELSE Tail(PoolOf(k)))

C8_Witness ==
    /\ pc = "seg_returned"
    /\ \E k \in 2..Len(questions) :
          /\ qsrc[k] = qsrc[k - 1]
          /\ Len(PoolOf(k)) >= 2
          /\ questions[k].images = questions[k - 1].images
          /\ \E j \in 1..Len(questions) :
                qsrc[j] # qsrc[k] /\ PoolOf(j) # PoolOf(k)

\* C9 as stated: for any pool, also one that holds the same ImageRef at two
\* positions, option_images holds no element equal to images.
C9_Original ==
    \A k \in 1..Len(questions) :
        \A j \in 1..Len(questions[k].option_images) :
            questions[k].option_images[j] # questions[k].images

\* C9 amended: option_images is the pool without its position 0, position by
\* position; so it holds no element equal to images whenever the ImageRefs
\* of the page's pool are pairwise distinct (a pool that repeats its first
\* ImageRef at a later position gives it back in option_images).
C9_Theorem ==
    pc = "seg_returned" =>
        \A k \in 1..Len(questions) :
            LET opts == questions[k].option_images
            IN  /\ Len(opts) = (IF PoolOf(k) = <<>> THEN 0
                                ELSE Len(PoolOf(k)) - 1)
                /\ \A j \in 1..Len(opts) : opts[j] = PoolOf(k)[j + 1]
                /\ (\A a, b \in 1..Len(PoolOf(k)) :
                        a # b => PoolOf(k)[a] # PoolOf(k)[b])
                   => \A j \in 1..Len(opts) : opts[j] # questions[k].images

C9_Witness ==
    /\ pc = "seg_returned"
    /\ \E k \in 1..Len(questions) :
          /\ Len(questions[k].option_images) >= 2
          /\ \A j \in 1..Len(questions[k].option_images) :
                questions[k].option_images[j] # questions[k].images

\* the lines of a text that are not empty after trimming, trimmed
RECURSIVE TrimmedLines(_)
TrimmedLines(lines) ==
    IF lines = <<>> THEN <<>>
    ELSE (IF Strip(Head(lines)) = <<>> THEN <<>> ELSE <<Strip(Head(lines))>>)
           \o TrimmedLines(Tail(lines))

LinesOf(p) == TrimmedLines(Split(page_data[p].text, "\n"))

\* lines joined by single spaces
RECURSIVE JoinSp(_)
JoinSp(lines) ==
    IF Len(lines) = 1 THEN Head(lines)
    ELSE Head(lines) \o <<" ">> \o JoinSp(Tail(lines))

\* the indices of the trigger lines among lines L
TriggersIn(L) == {i \in 1..Len(L) : IsTrigger(L[i])}

\* the texts made of consecutive lines of L that begin at a trigger line
RunsIn(L) ==
    LET T == TriggersIn(L)
    IN  { JoinSp(SubSeq(L, ab[1], ab[2])) :
            ab \in {x \in T \X (1..Len(L)) : x[1] <= x[2]} }

\* the last trigger line of L (0 when it has none)
LastTrigger(L) ==
    LET T == TriggersIn(L)
    IN  IF T = {} THEN 0 ELSE CHOOSE i \in T : \A j \in T : j <= i

\* C10: the segmenter carries nothing across pages: the text of every
\* Question is a run of consecutive lines of one page, the page it was
\* appended on, beginning at a trigger line of that page (so lines that lead
\* a page before its first trigger line are in no Question); and a question
\* open at the end of a page is flushed there, with the lines up to the end
\* of that page.
C10_Theorem ==
    pc = "seg_returned" =>
        LET L == [p \in 1..Len(page_data) |-> LinesOf(p)]
        IN  /\ \A k \in 1..Len(questions) :
                  /\ questions[k].question \in RunsIn(L[qsrc[k]])
                  /\ (k > 1 => qsrc[k - 1] <= qsrc[k])
            /\ \A p \in 1..Len(page_data) :
                  LET last == LastTrigger(L[p])
                  IN  last > 0 =>
                        \E k \in 1..Len(questions) :
                            /\ qsrc[k] = p
                            /\ questions[k].question =
                                  JoinSp(SubSeq(L[p], last, Len(L[p])))
                            /\ \A j \in (k + 1)..Len(questions) : qsrc[j] > p

C10_Witness ==
    /\ pc = "seg_returned"
    /\ \E p \in 2..Len(page_data) :
          /\ LastTrigger(LinesOf(p - 1)) > 0
          /\ LinesOf(p) # <<>>
          /\ ~IsTrigger(LinesOf(p)[1])
          /\ LastTrigger(LinesOf(p)) > 1
          /\ \E k \in 2..Len(questions) : qsrc[k - 1] = p - 1 /\ qsrc[k] = p

\* the number of trigger lines on the pages before page p
RECURSIVE TriggersBefore(_)
TriggersBefore(p) ==
    IF p <= 1 THEN 0
    ELSE TriggersBefore(p - 1) + Cardinality(TriggersIn(LinesOf(p - 1)))

\* the last line of the block opened by trigger line i of L: the line before
\* the next trigger line, or the last line of the page
BlockEnd(L, i) ==
    LET later == {j \in TriggersIn(L) : j > i}
    IN  IF later = {} THEN Len(L)
        ELSE (CHOOSE j \in later : \A x \in later : j <= x) - 1

\* C11: the segmenter emits exactly one Question per non-empty trigger line,
\* in the order of those lines (pages in input order, lines top to bottom);
\* the text of each is its trigger line followed by the later non-trigger
\* lines of the same page up to the next trigger line, trimmed, blank lines
\* left out, joined by single spaces.  A page without a trigger line emits
\* no Question and a page made of one trigger line emits exactly one.
C11_Theorem ==
    pc = "seg_returned" =>
        /\ Len(questions) = TriggersBefore(Len(page_data) + 1)
        /\ \A p \in 1..Len(page_data) :
              LET L == LinesOf(p)
                  T == TriggersIn(L)
              IN  /\ Cardinality({k \in 1..Len(questions) : qsrc[k] = p})
                       = Cardinality(T)
                  /\ \A i \in T :
                        LET k == TriggersBefore(p)
                                   + Cardinality({j \in T : j <= i})
                        IN  /\ qsrc[k] = p
                            /\ questions[k].question =
                                 JoinSp(SubSeq(L, i, BlockEnd(L, i)))

C11_Witness ==
    /\ pc = "seg_returned"
    /\ Len(questions) >= 2
    /\ \E p, r \in 1..Len(page_data) :
          /\ LinesOf(p) # <<>> /\ TriggersIn(LinesOf(p)) = {}
          /\ Cardinality(TriggersIn(LinesOf(r))) >= 2
          /\ \E i \in TriggersIn(LinesOf(r)) :
                /\ BlockEnd(LinesOf(r), i) > i
                /\ BlockEnd(LinesOf(r), i) < Len(LinesOf(r))

====
